---- MODULE Spec2Model ----
(***************************************************************************)
(* Model of the two batch scripts of the training container:               *)
(*   - the Data Preparer (lib/training/download_data.py), and              *)
(*   - the Trainer       (lib/training/sentiment.py).                      *)
(* Every script is a sequential program; its position is a pc variable.    *)
(* SpecPrep runs the Preparer, Spec runs the Trainer's epoch loop over a   *)
(* few datasets and many epoch/patience settings, SpecData runs the        *)
(* Trainer over every small dataset with a short epoch loop.               *)
(***************************************************************************)
EXTENDS Integers, Sequences, FiniteSets, TLC

(* ------------------------------ bounds --------------------------------- *)
\* URLs in a manifest
MaxUrls == 2
\* lines in one source shard
MaxShardLines == 2
\* lines in the Trainer's dataset file
MaxLines == 4
\* configured epochs
MaxEpochs == 5
\* configured patience
MaxPatience == 3
\* validation F1 is quantised to the grades 0 .. MaxF1 (grade g is g / MaxF1)
MaxF1 == 2

(* --------------------------- program constants ------------------------- *)
\* mock_data = [4 template lines] * 25
MockRepeat == 25
\* config.get('patience', 3)
DefaultPatience == 3

VARIABLES
    \* ---- Data Preparer ----
    ppc,              \* position in main()
    manifest,         \* /workspace/data_access.json
    disk,             \* /data: [dir, combined, shard]
    downloaded_files, \* main(): indices i of the per-index files that downloaded
    exitCode,         \* process exit status (-1 while running)
    srcs,             \* history: body served for URL i
    outcome,          \* history: "none" | "ok" | "fail" per URL
    attempted,        \* history: URL indices in the order download_file was called
    combined0,        \* history: /data/combined.jsonl before the run
    combinedOpened,   \* history: the run opened /data/combined.jsonl for writing
    \* ---- Trainer ----
    tpc,              \* position in train()
    lines,            \* the dataset file, one record per line
    texts,            \* load_data()/train(): texts
    labels,           \* load_data()/train(): labels
    config,           \* the config dict
    config0,          \* history: the config as loaded
    model_num_labels, \* num_labels the model was constructed with (-1: no model)
    epoch,            \* loop variable of the epoch loop
    best_val_f1,
    patience_counter,
    ckptDir,          \* os.makedirs(config['checkpoint_dir']) has run
    ckptFiles,        \* files in the checkpoint directory: name -> saved dict
    f1s,              \* history: validation F1 of every epoch run
    saves,            \* history: best_f1 of every torch.save
    trainPhases       \* history: number of train phases run

pvars == <<ppc, manifest, disk, downloaded_files, exitCode, srcs, outcome,
           attempted, combined0, combinedOpened>>
tvars == <<tpc, lines, texts, labels, config, config0, model_num_labels, epoch,
           best_val_f1, patience_counter, ckptDir, ckptFiles, f1s, saves,
           trainPhases>>
vars == <<pvars, tvars>>

(* ======================================================================= *)
(*                              DATA PREPARER                              *)
(* ======================================================================= *)

NL == "\n"
Absent == [exists |-> FALSE, data |-> <<>>]
File(d) == [exists |-> TRUE, data |-> d]
UrlIdx == 0 .. (MaxUrls - 1)

RECURSIVE Concat(_)
\* the elements of a sequence of sequences, joined
Concat(ss) == IF ss = <<>> THEN <<>> ELSE Head(ss) \o Concat(Tail(ss))

\* position of the first newline of s, 0 when there is none
FirstNL(s) ==
    IF \E k \in 1..Len(s) : s[k] = NL
    THEN CHOOSE k \in 1..Len(s) : s[k] = NL /\ \A j \in 1..(k-1) : s[j] # NL
    ELSE 0

RECURSIVE SplitLines(_)
\* `for line in inf`: the lines of a text file, each with its terminator;
\* a last line without terminator is still a line
SplitLines(s) ==
    IF s = <<>> THEN <<>>
    ELSE LET k == FirstNL(s) IN
         IF k = 0 THEN <<s>>
         ELSE <<SubSeq(s, 1, k)>> \o SplitLines(SubSeq(s, k + 1, Len(s)))

LineCount(s) == Len(SplitLines(s))

RECURSIVE WriteLines(_, _)
\* `for line in inf: outf.write(line)`
WriteLines(out, ls) ==
    IF ls = <<>> THEN out ELSE WriteLines(out \o Head(ls), Tail(ls))

RECURSIVE CombineInto(_, _, _)
\* the loop of combine_jsonl_files over input_files
CombineInto(out, input_files, shard) ==
    IF input_files = <<>> THEN out
    ELSE LET f == shard[Head(input_files)] IN
         CombineInto(IF f.exists THEN WriteLines(out, SplitLines(f.data)) ELSE out,
                     Tail(input_files), shard)

\* combine_jsonl_files(input_files, output_file): the output file afterwards
\* (open(output_file, 'w') truncates it)
combine_jsonl_files(input_files, shard) == File(CombineInto(<<>>, input_files, shard))

RECURSIVE Repeat(_, _)
Repeat(s, n) == IF n = 0 THEN <<>> ELSE s \o Repeat(s, n - 1)

\* the 4 template lines (label 1, 0, 1, 0), 25 times
mock_data ==
    Repeat(<<"p", "1", NL, "n", "0", NL, "P", "1", NL, "N", "0", NL>>, MockRepeat)

(* ---- inputs: the body served for URL i ---- *)
\* line j of source i, with its terminator: the characters "i", "-j", newline
SrcLine(i, j) == <<ToString(i), ToString(0 - j), NL>>

RECURSIVE SrcBody(_, _)
SrcBody(i, n) == IF n = 0 THEN <<>> ELSE SrcBody(i, n - 1) \o SrcLine(i, n)

\* n lines; the last one without a trailing newline when ~terminated
Source(i, n, terminated) ==
    IF n = 0 \/ terminated THEN SrcBody(i, n)
    ELSE SubSeq(SrcBody(i, n), 1, Len(SrcBody(i, n)) - 1)

Sources(i) == { Source(i, n, t) : n \in 0..MaxShardLines, t \in BOOLEAN }

\* what is on disk after k chunks (here: lines) of the body were written
ChunkPrefix(body, k) == Concat(SubSeq(SplitLines(body), 1, k))

ManifestKinds == {"missing", "unparsable", "nonobject", "nokey", "scalar", "list"}

Manifests ==
    { [kind |-> k, n |-> 0] : k \in ManifestKinds \ {"list"} }
        \cup { [kind |-> "list", n |-> n] : n \in 0..MaxUrls }

\* json.load succeeds
Parsable(m) == m.kind \notin {"missing", "unparsable"}
\* data_config.get('urls', []) works: the JSON value is an object
IsObject(m) == m.kind \in {"nokey", "scalar", "list"}
\* `not urls`: key missing or list empty
NoUrls(m) == m.kind = "nokey" \/ (m.kind = "list" /\ m.n = 0)

TrainerIdle ==
    /\ tpc = "idle"
    /\ lines = <<>> /\ texts = <<>> /\ labels = <<>>
    /\ config = [num_labels |-> 0, epochs |-> 0, hasPatience |-> FALSE, patience |-> 0]
    /\ config0 = config
    /\ model_num_labels = -1
    /\ epoch = 0 /\ best_val_f1 = 0 /\ patience_counter = 0
    /\ ckptDir = FALSE /\ ckptFiles = <<>>
    /\ f1s = <<>> /\ saves = <<>> /\ trainPhases = 0

InitPrep ==
    /\ ppc = "load_config"
    /\ manifest \in Manifests
    /\ \E dir \in BOOLEAN, old \in BOOLEAN :
         disk = [dir |-> dir,
                 combined |-> IF dir /\ old THEN File(<<"o", NL>>) ELSE Absent,
                 shard |-> [i \in UrlIdx |-> Absent]]
    /\ downloaded_files = <<>>
    /\ exitCode = -1
    /\ srcs = [i \in UrlIdx |-> <<>>]
    /\ outcome = [i \in UrlIdx |-> "none"]
    /\ attempted = <<>>
    /\ combined0 = disk.combined
    /\ combinedOpened = FALSE
    /\ TrainerIdle

\* main() lines 53-58: load the manifest
LoadConfig ==
    /\ ppc = "load_config"
    /\ IF Parsable(manifest)
       THEN ppc' = "prepare" /\ UNCHANGED exitCode
       ELSE ppc' = "done" /\ exitCode' = 1
    /\ UNCHANGED <<manifest, disk, downloaded_files, srcs, outcome, attempted,
                   combined0, combinedOpened>>

\* an uncaught exception leaves through `sys.exit(main())`: exit status 1
UncaughtExit == 1

\* main() lines 61-81: the data directory, the URL list, the mock dataset
Prepare ==
    /\ ppc = "prepare"
    /\ IF ~IsObject(manifest)
       THEN \* data_config.get raises AttributeError, uncaught
            /\ ppc' = "done" /\ exitCode' = UncaughtExit
            /\ disk' = [disk EXCEPT !.dir = TRUE]
            /\ UNCHANGED combinedOpened
       ELSE IF NoUrls(manifest)
       THEN /\ disk' = [disk EXCEPT !.dir = TRUE, !.combined = File(mock_data)]
            /\ combinedOpened' = TRUE
            /\ ppc' = "done" /\ exitCode' = 0
       ELSE IF manifest.kind = "scalar"
       THEN \* enumerate(urls) raises TypeError, uncaught
            /\ ppc' = "done" /\ exitCode' = UncaughtExit
            /\ disk' = [disk EXCEPT !.dir = TRUE]
            /\ UNCHANGED combinedOpened
       ELSE /\ ppc' = "download"
            /\ disk' = [disk EXCEPT !.dir = TRUE]
            /\ UNCHANGED <<exitCode, combinedOpened>>
    /\ UNCHANGED <<manifest, downloaded_files, srcs, outcome, attempted, combined0>>

\* main(): downloaded_files.append(filepath) when download_file returned True
AppendDownloadedAlways(files, i, ok) == Append(files, i)
AppendDownloaded(files, i, ok) == IF ok THEN Append(files, i) ELSE files

\* main() lines 83-88 with download_file (17-32): one iteration of the URL loop.
\* The body and the way the request ends are the inputs.
Download ==
    /\ ppc = "download"
    /\ LET i == Len(attempted) IN
       /\ i < manifest.n
       /\ \E body \in Sources(i), how \in {"ok", "before_open", "partial"} :
          \E k \in 0..LineCount(body) :
            /\ how # "partial" => k = 0
            /\ srcs' = [srcs EXCEPT ![i] = body]
            /\ outcome' = [outcome EXCEPT ![i] = IF how = "ok" THEN "ok" ELSE "fail"]
            /\ attempted' = Append(attempted, i)
            /\ disk' = [disk EXCEPT !.shard[i] =
                          CASE how = "ok" -> File(body)
                            [] how = "before_open" -> @
                            [] how = "partial" -> File(ChunkPrefix(body, k))]
            /\ downloaded_files' = AppendDownloaded(downloaded_files, i, how = "ok")
            /\ ppc' = IF i + 1 = manifest.n THEN "check" ELSE "download"
    /\ UNCHANGED <<manifest, exitCode, combined0, combinedOpened>>

\* `if not downloaded_files`
NoneDownloadedNever(files) == FALSE
NoneDownloaded(files) == files = <<>>

\* main() lines 90-92
CheckDownloaded ==
    /\ ppc = "check"
    /\ IF NoneDownloaded(downloaded_files)
       THEN ppc' = "done" /\ exitCode' = 1
       ELSE ppc' = "combine" /\ UNCHANGED exitCode
    /\ UNCHANGED <<manifest, disk, downloaded_files, srcs, outcome, attempted,
                   combined0, combinedOpened>>

\* main() lines 95-96
Combine ==
    /\ ppc = "combine"
    /\ disk' = [disk EXCEPT !.combined = combine_jsonl_files(downloaded_files, disk.shard)]
    /\ combinedOpened' = TRUE
    /\ ppc' = "validate"
    /\ UNCHANGED <<manifest, downloaded_files, exitCode, srcs, outcome, attempted,
                   combined0>>

\* `not os.path.exists(combined_file) or os.path.getsize(combined_file) == 0`
EmptyOrMissingLax(f) == ~f.exists
EmptyOrMissing(f) == ~f.exists \/ Len(f.data) = 0

\* main() lines 99-112: validate the combined file, remove the per-index files
ValidateAndCleanup ==
    /\ ppc = "validate"
    /\ IF EmptyOrMissing(disk.combined)
       THEN exitCode' = 1 /\ UNCHANGED disk
       ELSE /\ exitCode' = 0
            /\ disk' = [disk EXCEPT !.shard =
                          [i \in UrlIdx |->
                             IF \E j \in 1..Len(downloaded_files) : downloaded_files[j] = i
                             THEN Absent ELSE disk.shard[i]]]
    /\ ppc' = "done"
    /\ UNCHANGED <<manifest, downloaded_files, srcs, outcome, attempted, combined0,
                   combinedOpened>>

NextPrep ==
    \/ (LoadConfig /\ UNCHANGED tvars)
    \/ (Prepare /\ UNCHANGED tvars)
    \/ (Download /\ UNCHANGED tvars)
    \/ (CheckDownloaded /\ UNCHANGED tvars)
    \/ (Combine /\ UNCHANGED tvars)
    \/ (ValidateAndCleanup /\ UNCHANGED tvars)

SpecPrep == InitPrep /\ [][NextPrep]_vars

(* ======================================================================= *)
(*                                 TRAINER                                 *)
(* ======================================================================= *)

\* A label value is a string or an integer: [t |-> "str", v |-> k] is the k-th
\* name of StrNames (which is in lexicographic order, so comparing k compares
\* the strings as Python's sorted() does); [t |-> "int", v |-> k] is the integer k.
StrNames == <<"neg", "pos", "zzz">>
StrLabel(k) == [t |-> "str", v |-> k]
IntLabel(k) == [t |-> "int", v |-> k]
NoLabel == [t |-> "none", v |-> 0]
OkLabels == {StrLabel(1), StrLabel(2), IntLabel(0), IntLabel(1), IntLabel(2)}

\* One line of the dataset file: does json.loads accept it, does the object
\* have 'text', does it have 'label'. The text of line k is k.
LineKinds ==
    {[parses |-> FALSE, hasText |-> FALSE, hasLabel |-> FALSE, text |-> 0, label |-> NoLabel],
     [parses |-> TRUE, hasText |-> FALSE, hasLabel |-> TRUE, text |-> 0, label |-> StrLabel(3)],
     [parses |-> TRUE, hasText |-> TRUE, hasLabel |-> FALSE, text |-> 0, label |-> NoLabel]}
      \cup {[parses |-> TRUE, hasText |-> TRUE, hasLabel |-> TRUE, text |-> 0, label |-> l] :
               l \in OkLabels}

Datasets(maxn) ==
    UNION { { [k \in 1..n |-> [ks[k] EXCEPT !.text = k]] : ks \in [1..n -> LineKinds] } :
            n \in 0..maxn }

\* load_data, the body of `for line in f`: json.loads, then texts.append(obj['text']),
\* then labels.append(obj['label']); an exception at any of the three leaves the loop body
LoadLine(acc, line) ==
    IF ~line.parses THEN acc
    ELSE IF ~line.hasText THEN acc
    ELSE IF ~line.hasLabel THEN [acc EXCEPT !.texts = Append(@, line.text)]
    ELSE [texts |-> Append(acc.texts, line.text), labels |-> Append(acc.labels, line.label)]

RECURSIVE LoadLines(_, _)
LoadLines(acc, ls) ==
    IF ls = <<>> THEN acc ELSE LoadLines(LoadLine(acc, Head(ls)), Tail(ls))

\* load_data(data_path, 'jsonl')
load_data(ls) == LoadLines([texts |-> <<>>, labels |-> <<>>], ls)

SetMin(S) == CHOOSE m \in S : \A x \in S : m <= x
SetMax(S) == CHOOSE m \in S : \A x \in S : m >= x

RECURSIVE SortedSeq(_)
\* sorted(set(...)) of a set of integers
SortedSeq(S) == IF S = {} THEN <<>> ELSE <<SetMin(S)>> \o SortedSeq(S \ {SetMin(S)})

\* label_to_id[label], for unique_labels = sorted(set(labels))
label_to_id(unique_labels, v) ==
    (CHOOSE i \in 1..Len(unique_labels) : unique_labels[i] = v) - 1

Values(ls) == { ls[i].v : i \in 1..Len(ls) }

\* `if config['num_labels'] != detected_num_labels: config['num_labels'] = detected_num_labels`
OverrideNever(cfg, detected) == cfg
Override(cfg, detected) ==
    IF cfg.num_labels # detected THEN [cfg EXCEPT !.num_labels = detected] ELSE cfg

\* config.get('patience', 3)
PatienceOf(cfg) == IF cfg.hasPatience THEN cfg.patience ELSE DefaultPatience

\* os.path.join(config['checkpoint_dir'], 'best_model.pt')
model_path == "best_model.pt"

\* `if val_metrics['f1'] > best_val_f1`
ImprovedOrEqual(f1, best) == f1 >= best
Improved(f1, best) == f1 > best

\* `patience_counter = 0` after a save, `patience_counter += 1` otherwise
NextCounterNoReset(better, counter) == counter + 1
NextCounter(better, counter) == IF better THEN 0 ELSE counter + 1

\* `if patience_counter >= config.get('patience', 3): break`
StopEarlyLate(counter, cfg) == counter > PatienceOf(cfg)
StopEarly(counter, cfg) == counter >= PatienceOf(cfg)

PreparerIdle ==
    /\ ppc = "idle"
    /\ manifest = [kind |-> "missing", n |-> 0]
    /\ disk = [dir |-> FALSE, combined |-> Absent, shard |-> [i \in UrlIdx |-> Absent]]
    /\ downloaded_files = <<>>
    /\ exitCode = -1
    /\ srcs = [i \in UrlIdx |-> <<>>]
    /\ outcome = [i \in UrlIdx |-> "none"]
    /\ attempted = <<>>
    /\ combined0 = Absent
    /\ combinedOpened = FALSE

TrainerStart ==
    /\ tpc = "load"
    /\ texts = <<>> /\ labels = <<>>
    /\ config0 = config
    /\ model_num_labels = -1
    /\ epoch = 0 /\ best_val_f1 = 0 /\ patience_counter = 0
    /\ ckptDir = FALSE /\ ckptFiles = <<>>
    /\ f1s = <<>> /\ saves = <<>> /\ trainPhases = 0

\* train() line 99
LoadData ==
    /\ tpc = "load"
    /\ texts' = load_data(lines).texts
    /\ labels' = load_data(lines).labels
    /\ tpc' = "normalize"
    /\ UNCHANGED <<lines, config, config0, model_num_labels, epoch, best_val_f1,
                   patience_counter, ckptDir, ckptFiles, f1s, saves, trainPhases>>

\* train() lines 102-126: label normalization and num_labels reconciliation
Normalize ==
    /\ tpc = "normalize"
    /\ IF labels = <<>>
       THEN \* labels[0] raises IndexError
            tpc' = "failed" /\ UNCHANGED <<labels, config>>
       ELSE IF labels[1].t = "str"
       THEN IF \E i \in 1..Len(labels) : labels[i].t # "str"
            THEN \* sorted(set(labels)) raises TypeError on str < int
                 tpc' = "failed" /\ UNCHANGED <<labels, config>>
            ELSE LET unique_labels == SortedSeq(Values(labels)) IN
                 /\ labels' = [i \in 1..Len(labels) |->
                                 IntLabel(label_to_id(unique_labels, labels[i].v))]
                 /\ config' = Override(config, Len(unique_labels))
                 /\ tpc' = "split"
       ELSE IF \E i \in 1..Len(labels) : labels[i].t # "int"
            THEN \* int("neg") raises ValueError
                 tpc' = "failed" /\ UNCHANGED <<labels, config>>
            ELSE LET unique_labels == SortedSeq(Values(labels)) IN
                 /\ labels' = [i \in 1..Len(labels) |-> IntLabel(labels[i].v)]
                 /\ config' = Override(config, Len(unique_labels))
                 /\ tpc' = "split"
    /\ UNCHANGED <<lines, texts, config0, model_num_labels, epoch, best_val_f1,
                   patience_counter, ckptDir, ckptFiles, f1s, saves, trainPhases>>

\* train_test_split(texts, labels, ..., stratify=labels) accepts its arguments:
\* both of one length, and every class with at least 2 members
Splittable(ts, ls) ==
    /\ Len(ts) = Len(ls)
    /\ \A v \in Values(ls) : Cardinality({i \in 1..Len(ls) : ls[i].v = v}) >= 2

\* train() lines 130-140
Split ==
    /\ tpc = "split"
    /\ tpc' = IF Splittable(texts, labels) THEN "model" ELSE "failed"
    /\ UNCHANGED <<lines, texts, labels, config, config0, model_num_labels, epoch,
                   best_val_f1, patience_counter, ckptDir, ckptFiles, f1s, saves,
                   trainPhases>>

\* train() lines 143-160: the model, the optimizer, the loop variables
BuildModel ==
    /\ tpc = "model"
    /\ model_num_labels' = config.num_labels
    /\ best_val_f1' = 0
    /\ patience_counter' = 0
    /\ epoch' = 0
    /\ tpc' = IF config.epochs = 0 THEN "finish" ELSE "loop"
    /\ UNCHANGED <<lines, texts, labels, config, config0, ckptDir, ckptFiles, f1s,
                   saves, trainPhases>>

\* train() lines 162-217: one iteration of the epoch loop. The validation F1
\* is the input.
Epoch ==
    /\ tpc = "loop"
    /\ epoch < config.epochs
    /\ \E f1 \in 0..MaxF1 :
         LET better == Improved(f1, best_val_f1)
             counter == NextCounter(better, patience_counter)
             stop == StopEarly(counter, config)
         IN
         /\ trainPhases' = trainPhases + 1
         /\ f1s' = Append(f1s, f1)
         /\ IF better
            THEN /\ best_val_f1' = f1
                 /\ ckptDir' = TRUE
                 /\ ckptFiles' = (model_path :> [model_state_dict |-> epoch + 1,
                                                 config |-> config,
                                                 best_f1 |-> f1]) @@ ckptFiles
                 /\ saves' = Append(saves, f1)
            ELSE UNCHANGED <<best_val_f1, ckptDir, ckptFiles, saves>>
         /\ patience_counter' = counter
         /\ IF stop \/ epoch + 1 = config.epochs
            THEN tpc' = "finish" /\ UNCHANGED epoch
            ELSE tpc' = "loop" /\ epoch' = epoch + 1
    /\ UNCHANGED <<lines, texts, labels, config, config0, model_num_labels>>

\* train() line 219
Finish ==
    /\ tpc = "finish"
    /\ tpc' = "done"
    /\ UNCHANGED <<lines, texts, labels, config, config0, model_num_labels, epoch,
                   best_val_f1, patience_counter, ckptDir, ckptFiles, f1s, saves,
                   trainPhases>>

NextTrain ==
    \/ (LoadData /\ UNCHANGED pvars)
    \/ (Normalize /\ UNCHANGED pvars)
    \/ (Split /\ UNCHANGED pvars)
    \/ (BuildModel /\ UNCHANGED pvars)
    \/ (Epoch /\ UNCHANGED pvars)
    \/ (Finish /\ UNCHANGED pvars)

Line(kind, k) == [kind EXCEPT !.text = k]
OkLine(l) == [parses |-> TRUE, hasText |-> TRUE, hasLabel |-> TRUE, text |-> 0, label |-> l]

\* datasets of the epoch-loop specification: two string classes, one integer class
LoopDatasets ==
    { [k \in 1..4 |-> Line(OkLine(StrLabel(IF k % 2 = 0 THEN 1 ELSE 2)), k)],
      [k \in 1..2 |-> Line(OkLine(IntLabel(1)), k)] }

Configs(numLabels, epochs, patiences) ==
    { [num_labels |-> n, epochs |-> e, hasPatience |-> TRUE, patience |-> p] :
        n \in numLabels, e \in epochs, p \in patiences }
      \cup { [num_labels |-> n, epochs |-> e, hasPatience |-> FALSE, patience |-> 0] :
        n \in numLabels, e \in epochs }

\* the epoch loop: few datasets, every epoch count and patience
Init ==
    /\ lines \in LoopDatasets
    /\ config \in Configs({2}, 0..MaxEpochs, 1..MaxPatience)
    /\ TrainerStart
    /\ PreparerIdle

Spec == Init /\ [][NextTrain]_vars

\* loading and normalization: every dataset, every configured num_labels
InitData ==
    /\ lines \in Datasets(MaxLines)
    /\ config \in Configs(1..3, {2}, {})
    /\ TrainerStart
    /\ PreparerIdle

SpecData == InitData /\ [][NextTrain]_vars

(* ------------------------ claims about the Trainer --------------------- *)
\* the best validation F1 of the first k epochs (the best-so-far starts at 0)
RunningBest(k) == SetMax({0} \cup { f1s[i] : i \in 1..k })
\* the epochs whose validation F1 strictly exceeded the best of the epochs before
ImprovingEpochs == { i \in 1..Len(f1s) : f1s[i] > RunningBest(i - 1) }
LastImproving == IF ImprovingEpochs = {} THEN 0 ELSE SetMax(ImprovingEpochs)

RECURSIVE ImprovingValues(_)
\* the F1 values of the improving epochs among the first k, in epoch order
ImprovingValues(k) ==
    IF k = 0 THEN <<>>
    ELSE ImprovingValues(k - 1) \o (IF k \in ImprovingEpochs THEN <<f1s[k]>> ELSE <<>>)

Halted == tpc \in {"finish", "done"}

\* C1: with patience p >= 1 (3 when the key is not configured), the number of
\* epochs run never exceeds (last improving epoch + p) nor config.epochs; once p
\* consecutive epochs have failed to improve the loop has halted; and after the
\* halt no further train or eval phase runs.
C1_EarlyStopping ==
    /\ [](/\ Len(f1s) <= LastImproving + PatienceOf(config0)
          /\ Len(f1s) <= config0.epochs
          /\ trainPhases = Len(f1s)
          /\ (Len(f1s) - LastImproving >= PatienceOf(config0)) => Halted)
    /\ [][Halted => (Halted' /\ f1s' = f1s /\ trainPhases' = trainPhases)]_vars

\* the default patience: an improvement in epoch 1, three epochs without one,
\* and the run ends after epoch 4 of 5 or more
C1_Witness ==
    /\ tpc = "done" /\ ~config0.hasPatience
    /\ LastImproving = 1 /\ Len(f1s) = 1 + DefaultPatience
    /\ Len(f1s) < config0.epochs

\* C2: when no epoch's validation F1 strictly exceeds the best-so-far (which
\* starts at 0), nothing is ever saved: no checkpoint file, no checkpoint directory.
C2_NoImprovementNoCheckpoint ==
    ImprovingEpochs = {} =>
        /\ saves = <<>>
        /\ DOMAIN ckptFiles = {}
        /\ ~ckptDir

\* a finished run of at least two epochs, none of them improving
C2_Witness ==
    /\ tpc = "done" /\ Len(f1s) >= 2 /\ ImprovingEpochs = {}
    /\ DOMAIN ckptFiles = {}

\* C7: after load_data the texts and labels have one length, and they are the
\* texts and labels of exactly the lines that parse and have both fields, in
\* file order; a skipped line contributes to neither.
C7_LoadAligned ==
    tpc = "normalize" =>
        LET full == { k \in 1..Len(lines) :
                        lines[k].parses /\ lines[k].hasText /\ lines[k].hasLabel }
        IN /\ Len(texts) = Len(labels)
           /\ texts = SortedSeq(full)
           /\ \A i \in 1..Len(labels) :
                  i <= Len(texts) => labels[i] = lines[texts[i]].label

\* the distinct label values of the lines load_data loaded a label from
LoadedLabels ==
    { lines[k].label : k \in { j \in 1..Len(lines) :
                                 lines[j].parses /\ lines[j].hasText /\ lines[j].hasLabel } }
Detected == Cardinality(LoadedLabels)

\* C8: from normalization on, and so when the model is constructed,
\* config.num_labels is the number of distinct label values loaded; the model
\* is built with that number; the config differs from the loaded one only in
\* num_labels and only when that disagreed; every checkpoint's config carries
\* the corrected value.
C8_NumLabelsReconciled ==
    /\ tpc \in {"split", "model", "loop", "finish", "done"} => config.num_labels = Detected
    /\ model_num_labels # -1 => model_num_labels = Detected
    /\ config # config0 =>
          /\ config0.num_labels # Detected
          /\ config = [config0 EXCEPT !.num_labels = Detected]
    /\ \A f \in DOMAIN ckptFiles : ckptFiles[f].config.num_labels = Detected

\* configured 3 labels, two present: the model and the checkpoint carry 2
C8_Witness ==
    /\ tpc = "done" /\ config0.num_labels = 3 /\ Detected = 2
    /\ model_num_labels = 2
    /\ model_path \in DOMAIN ckptFiles /\ ckptFiles[model_path].config.num_labels = 2

\* C9: a checkpoint is written in exactly the improving epochs, so the saved
\* best_f1 values are those epochs' F1 values and strictly increase; the
\* no-improvement counter is the number of epochs since the last improving one;
\* at most one checkpoint file exists, and it stores the maximum F1 so far.
C9_CheckpointPolicy ==
    /\ saves = ImprovingValues(Len(f1s))
    /\ \A i \in 1..(Len(saves) - 1) : saves[i] < saves[i + 1]
    /\ patience_counter = Len(f1s) - LastImproving
    /\ Cardinality(DOMAIN ckptFiles) <= 1
    /\ DOMAIN ckptFiles # {} <=> ImprovingEpochs # {}
    /\ \A f \in DOMAIN ckptFiles :
          /\ ckptFiles[f].best_f1 = RunningBest(Len(f1s))
          /\ ckptFiles[f].best_f1 = best_val_f1
          /\ ckptFiles[f].model_state_dict = LastImproving

\* two checkpoint writes, and a later epoch whose F1 equals the best and is not saved
C9_Witness ==
    /\ tpc = "done" /\ Len(saves) = 2
    /\ f1s[Len(f1s)] = RunningBest(Len(f1s) - 1)
    /\ patience_counter >= 1

\* C10: the labels the model is trained on are dense ids: each is in
\* 0 .. config.num_labels - 1 and is the rank of the line's label value among
\* the sorted distinct label values.
C10_DenseIds ==
    model_num_labels # -1 =>
        \A i \in 1..Len(labels) :
            /\ labels[i].v \in 0..(config.num_labels - 1)
            /\ labels[i].v =
                 Cardinality({ l \in LoadedLabels : l.v < lines[texts[i]].label.v })

(* ----------------------- claims about the Preparer --------------------- *)
\* the URLs of a usable manifest
NUrls == IF manifest.kind = "list" THEN manifest.n ELSE 0
AnyOk == \E i \in 0..(NUrls - 1) : outcome[i] = "ok"
AllOk == NUrls >= 1 /\ \A i \in 0..(NUrls - 1) : outcome[i] = "ok"
AllDownloadsFailed == NUrls >= 1 /\ \A i \in 0..(NUrls - 1) : outcome[i] = "fail"
ManifestLoadFailure == manifest.kind \in {"missing", "unparsable"}
MockPath == manifest.kind = "nokey" \/ (manifest.kind = "list" /\ manifest.n = 0)
CombinedHasContent == disk.combined.exists /\ Len(disk.combined.data) > 0
PrepSuccess == MockPath \/ (AnyOk /\ CombinedHasContent)

RECURSIVE OkBodies(_)
\* the bodies of the first n URLs whose download reported success, in manifest order
OkBodies(n) ==
    IF n = 0 THEN <<>>
    ELSE OkBodies(n - 1) \o (IF outcome[n - 1] = "ok" THEN <<srcs[n - 1]>> ELSE <<>>)

RECURSIVE SumLineCounts(_)
SumLineCounts(n) ==
    IF n = 0 THEN 0 ELSE SumLineCounts(n - 1) + LineCount(srcs[n - 1])

RECURSIVE AllSourceLines(_)
AllSourceLines(n) ==
    IF n = 0 THEN <<>> ELSE AllSourceLines(n - 1) \o SplitLines(srcs[n - 1])

\* C3: every run of main() ends with exit status 0 or 1; it is 0 exactly on
\* success (the mock-dataset path, or at least one shard downloaded and a
\* non-empty combined file) and 1 on a manifest that cannot be loaded, on all
\* downloads failed and on an empty or missing combined file. A run that has
\* not ended has no exit status.
C3_ExitCodeContract ==
    /\ ppc # "done" => exitCode = -1
    /\ ppc = "done" =>
         /\ exitCode \in {0, 1}
         /\ exitCode = 0 <=> PrepSuccess
         /\ ManifestLoadFailure => exitCode = 1
         /\ AllDownloadsFailed => exitCode = 1
         /\ ~CombinedHasContent => exitCode = 1

\* a run with one failed and one successful download that ends with status 0
C3_Witness ==
    /\ ppc = "done" /\ exitCode = 0
    /\ NUrls >= 2 /\ AnyOk /\ \E i \in 0..(NUrls - 1) : outcome[i] = "fail"

\* C4: when all N >= 1 downloads succeed, the combined file holds the lines of
\* the N sources in manifest order, its line count is the sum of the sources'
\* line counts, and no per-index file remains. (The clean-up is stated for the
\* runs that get to it, those whose combined file has content: a run whose
\* sources are all empty ends with status 1 before it.)
C4_CombinedLinesAndCleanup ==
    (ppc = "done" /\ AllOk) =>
        /\ SplitLines(disk.combined.data) = AllSourceLines(NUrls)
        /\ LineCount(disk.combined.data) = SumLineCounts(NUrls)
        /\ CombinedHasContent => \A i \in 0..(NUrls - 1) : ~disk.shard[i].exists

\* C5: on the two early fatal paths (manifest missing or unparsable, all N
\* downloads failed) the run ends with a nonzero status, never opens
\* /data/combined.jsonl, and leaves it as it was before the run.
C5_NoPartialOutput ==
    (ppc = "done" /\ (ManifestLoadFailure \/ AllDownloadsFailed)) =>
        /\ exitCode \notin {0, -1}
        /\ ~combinedOpened
        /\ disk.combined = combined0

\* all downloads failed, one of them after part of the body was written, and
\* the combined file of an earlier run is still there
C5_Witness ==
    /\ ppc = "done" /\ AllDownloadsFailed
    /\ combined0.exists /\ disk.combined = combined0
    /\ \E i \in 0..(NUrls - 1) : disk.shard[i].exists /\ disk.shard[i].data # <<>>

\* C6: a failed download does not abort the run: once the URL loop is over every
\* URL was attempted, in manifest order; and when at least one download
\* succeeded the combined file is exactly the bodies of the successful shards,
\* in manifest order, with nothing from a failed shard.
C6_FailuresIsolated ==
    /\ (NUrls >= 1 /\ ppc \in {"check", "combine", "validate", "done"}) =>
           attempted = [j \in 1..NUrls |-> j - 1]
    /\ (ppc \in {"validate", "done"} /\ AnyOk) =>
           /\ disk.combined.exists
           /\ disk.combined.data = Concat(OkBodies(NUrls))
           /\ \A i \in 0..(NUrls - 1) : outcome[i] = "fail" =>
                  \A k \in 1..Len(disk.combined.data) :
                      disk.combined.data[k] # ToString(i)

\* the first download fails after writing part of its body, the second
\* succeeds, and the run ends successfully with the partial file left behind
C6_Witness ==
    /\ ppc = "done" /\ exitCode = 0 /\ NUrls >= 2
    /\ outcome[0] = "fail" /\ disk.shard[0].exists /\ disk.shard[0].data # <<>>
    /\ outcome[1] = "ok" /\ srcs[1] # <<>>

====
